---------------------------- MODULE Spec2Model ----------------------------
(***************************************************************************)
(* Metadata-dataset resolution and download pipeline of OpenCeFaDB:        *)
(*   opencefadb/utils.py   download_file, download_multiple_files          *)
(*   opencefadb/core.py    _download_metadata_datasets         ("core")    *)
(*   opencefadb/dbinit.py  download_metadata_datasets          ("dbinit")  *)
(*   opencefadb/database/dbinit.py  download_metadata_datasets             *)
(*                                                             ("database")*)
(*   opencefadb/configuration.py    get_config, select_profile, delete     *)
(*   opencefadb/database/core.py    connect_to_database                    *)
(*                                                                         *)
(* Python None is the empty tuple <<>>, a present optional value x is the  *)
(* one-element tuple <<x>>.  A raised exception is a record with           *)
(* ok |-> FALSE and the exception's kind in err.                           *)
(***************************************************************************)
EXTENDS Integers, Sequences, FiniteSets, TLC

VARIABLES
    disk,      \* the download directory: target path -> bytes of the file there
    server,    \* the HTTP side: download URL -> the response a GET obtains
               \* (None until the URL is requested for the first time)
    zenodo,    \* history: the record references the remote record API was asked for
    impl,      \* which implementation of the pipeline runs: "core", "dbinit"
               \* or "database"
    dirs,      \* the per-hash directories created under the download directory
    catalog,   \* the bindings of the SPARQL SELECT, a sequence of rows
    args,      \* arguments of the current call
    pc,        \* position of the calling (main) thread
    lists,     \* download_urls/target_filenames/checksums/download_flags, zipped
    idx,       \* loop index of the main thread
    tasks,     \* the batch handed to download_multiple_files
    fut,       \* state of every submitted future
    results,   \* results / return_filenames accumulated so far
    outcome,   \* how the call ended: "none", "returned" (with ret) or "raised"
    ret,       \* the returned list
    log,       \* history: every download_file call made, with its result
    disk0,     \* history: the disk as it was when the current call started
    runs,      \* number of pipeline runs started
    dl,        \* a direct call of download_file: its arguments and result
    conf,      \* the configuration module and the database connection of a process
    wr,        \* two pipeline runs writing one target file, chunk by chunk
    apptypes,  \* database/dbinit.py: the application types still to be processed
    meta,      \* a call of _get_metadata_datasets: its arguments, the file
               \* system it works on and its result
    sql,       \* the table hdf5_files of an HDF5SqlDB and the last call made on it
    plot       \* a call of SemanticFanCurve._get_plotting_data and its result

vars == <<disk, server, zenodo, impl, dirs, catalog, args, pc, lists, idx, tasks, fut,
          results, outcome, ret, log, disk0, runs, dl, conf, wr, apptypes, meta, sql, plot>>

None == <<>>
Some(x) == <<x>>

(***************************************************************************)
(* Bounds of the model.                                                    *)
(***************************************************************************)
MaxRows == 2        \* rows of the catalog
MaxRuns == 2        \* pipeline runs over the same download directory
MaxThreads == 2     \* largest n_threads / max_workers tried
MaxBatch == 3       \* targets of a batch handed directly to download_multiple_files
MaxChunks == 2      \* chunks of a response body in a direct download_file call
MaxByte == 1        \* bytes range over 0..MaxByte
MaxCalls == 4       \* calls into the configuration module and connect_to_database

(***************************************************************************)
(* Byte strings, digests and checksum algorithms.                          *)
(***************************************************************************)
RECURSIVE Flatten(_)
\* The bytes the loop over iter_content writes and hashes: only non-empty
\* chunks reach f.write and hasher.update.
Flatten(chunks) ==
    IF chunks = <<>> THEN <<>>
    ELSE IF Head(chunks) # <<>> THEN Head(chunks) \o Flatten(Tail(chunks))
         ELSE Flatten(Tail(chunks))

HashNames == {"sha256", "md5", "sha1"}

HashSeed(name) == CASE name = "sha256" -> 7 [] name = "md5" -> 3 [] OTHER -> 5
HashMod == 61

RECURSIVE HashUpdate(_, _)
\* hasher.update over a byte string, from state h: a small rolling digest
\* that depends on every byte and on the order of the bytes.
HashUpdate(h, bytes) ==
    IF bytes = <<>> THEN h
    ELSE HashUpdate((h * 17 + Head(bytes) + 1) % HashMod, Tail(bytes))

RECURSIVE HashChunks(_, _)
\* The running digest over the chunks of the response, chunk by chunk.
HashChunks(h, chunks) ==
    IF chunks = <<>> THEN h
    ELSE HashChunks(IF Head(chunks) # <<>> THEN HashUpdate(h, Head(chunks)) ELSE h,
                    Tail(chunks))

\* hashlib.new(name): the digest primitive, or ValueError for an unknown name.
HashlibSupports(name) == name \in HashNames

\* Digest of a whole byte string under a canonical algorithm name.
Digest(name, bytes) == HashUpdate(HashSeed(name), bytes)

\* An algorithm string is [form, tail]:
\*   "plain"  the string is tail itself
\*   "spdx"   "http://spdx.org/rdf/terms#checksumAlgorithm_" followed by tail
\*   "http"   "http://<authority>/" followed by tail
Lower(s) == CASE s = "SHA256" -> "sha256" [] s = "MD5" -> "md5" [] s = "SHA1" -> "sha1"
              [] OTHER -> s

\* Result of _parse_checksum_algorithm: [ok, name]; ok = FALSE is the
\* ValueError "Unsupported checksum algorithm".
_parse_checksum_algorithm(alg) ==
    IF alg.form = "plain" /\ alg.tail \in {"sha256", "sha-256", "sha_256"}
      THEN [ok |-> TRUE, name |-> "sha256"]
    ELSE IF alg.form = "plain" /\ alg.tail \in {"md5", "md-5", "md_5"}
      THEN [ok |-> TRUE, name |-> "md5"]
    ELSE IF alg.form = "plain" /\ alg.tail \in {"sha1", "sha-1", "sha_1"}
      THEN [ok |-> TRUE, name |-> "sha1"]
    ELSE IF alg.form = "spdx" THEN [ok |-> TRUE, name |-> alg.tail]
    ELSE IF alg.form = "http" THEN [ok |-> TRUE, name |-> Lower(alg.tail)]
    ELSE [ok |-> FALSE, name |-> ""]

(***************************************************************************)
(* HTTP responses.  A response is                                          *)
(*   [net   |-> TRUE when requests.get itself fails (no response at all),  *)
(*    status|-> the HTTP status,                                           *)
(*    chunks|-> what iter_content yields,                                  *)
(*    cut   |-> None, or Some(n): the connection breaks after n chunks]    *)
(***************************************************************************)
Resp(net, status, chunks, cut) ==
    [net |-> net, status |-> status, chunks |-> chunks, cut |-> cut]

RaiseForStatusNever(status) == TRUE

\* response.raise_for_status(): raises for a 4xx or 5xx status.
RaiseForStatusOk(status) == status < 400

Fail(kind, d) == [ok |-> FALSE, err |-> kind, disk |-> d, requested |-> TRUE]

\* The chunks that arrive before the connection breaks.
Delivered(resp) ==
    IF resp.cut = None THEN resp.chunks
    ELSE SubSeq(resp.chunks, 1, resp.cut[1])

WriteFile(d, target, bytes) == (target :> bytes) @@ d

\* The final comparison of download_file (utils.py 75-79).
ChecksumNoCompare(digest, expected) == TRUE

ChecksumMatches(digest, expected) == digest = expected

\* download_file(url, target, checksum, checksum_algorithm) on disk d with the
\* response resp: [ok, err, disk, requested].  requested tells whether the
\* GET was issued.
download_file(resp, target, checksum, alg, d) ==
    LET parsed == IF checksum # None /\ alg # None
                     THEN _parse_checksum_algorithm(alg[1])
                     ELSE [ok |-> TRUE, name |-> ""]
    IN  IF checksum # None /\ alg = None
          THEN [ok |-> FALSE, err |-> "ValueError", disk |-> d, requested |-> FALSE]
        ELSE IF ~parsed.ok
          THEN [ok |-> FALSE, err |-> "UnsupportedAlgorithm", disk |-> d,
                requested |-> FALSE]
        ELSE IF resp.net THEN Fail("ConnectionError", d)
        ELSE IF ~RaiseForStatusOk(resp.status) THEN Fail("HTTPError", d)
        ELSE IF checksum # None /\ ~HashlibSupports(parsed.name)
          THEN Fail("UnsupportedAlgorithm", d)
        ELSE LET got     == Delivered(resp)
                 written == WriteFile(d, target, Flatten(got))
             IN  IF resp.cut # None THEN Fail("ChunkedEncodingError", written)
                 ELSE IF checksum # None
                         /\ ~ChecksumMatches(HashChunks(HashSeed(parsed.name), got),
                                             checksum[1])
                   THEN Fail("ChecksumMismatch", written)
                 ELSE [ok |-> TRUE, err |-> "", disk |-> written, requested |-> TRUE]

(***************************************************************************)
(* URLs, file names and target paths.  A URL is [stem, suffix]: the text   *)
(* after its last '/' is stem followed by suffix ("" when it has none).    *)
(***************************************************************************)
Url(stem, suffix) == [stem |-> stem, suffix |-> suffix]

\* d.download_url.rsplit('/', 1)[-1] as a pathlib.Path: its name and suffix.
UrlFilename(url) == [stem |-> url.stem, suffix |-> url.suffix]

\* sha256 over the URL text: collision-free on the URLs of the model.
compute_sha256(url) == [sha256_of |-> url]

_url_hash(url) == [sha256_of |-> url]

\* A path below download_dir: [hash, flat, stem, suffix].
\*   flat = FALSE:  download_dir / hash / (stem + suffix)      (core.py)
\*   flat = TRUE :  download_dir / (hash + suffix)             (dbinit.py)
Path(hash, flat, stem, suffix) ==
    [hash |-> hash, flat |-> flat, stem |-> stem, suffix |-> suffix]

(***************************************************************************)
(* Media types.  The text of a media type is [scheme, prefix, value], read *)
(* scheme + prefix + value; an absent one is None, whose str() is "None".  *)
(***************************************************************************)
Media(scheme, prefix, value) == [scheme |-> scheme, prefix |-> prefix, value |-> value]

IanaPrefix == "www.iana.org/assignments/media-types/"

\* value -> member name, for the enum of each implementation.
MediaTypeMembers(im) ==
    IF im = "core"
      THEN {<<"application/ld+json", "JSON_LD">>, <<"text/turtle", "TURTLE">>,
            <<"model/iges", "IGES">>, <<"igs", "IGS">>, <<"text/csv", "CSV">>,
            <<"text/plain", "TXT">>, <<"application/rdf+xml", "XML">>,
            <<"application/xml", "XML2">>, <<"application/x-hdf5", "HDF5">>}
      ELSE {<<"application/ld+json", "JSON_LD">>, <<"text/turtle", "TURTLE">>,
            <<"model/iges", "IGES">>}

\* cls(text): the member whose value is text, "None" for the ValueError.
MediaTypeOfValue(im, scheme, prefix, value) ==
    IF scheme = "" /\ prefix = "" /\ \E m \in MediaTypeMembers(im) : m[1] = value
      THEN (CHOOSE m \in MediaTypeMembers(im) : m[1] = value)[2]
      ELSE "None"

\* MediaType.parse / _parse_media_type: a member name, or "None".
MediaTypeParse(im, media) ==
    IF media = None THEN "None"      \* str(None) = "None" is no member's value
    ELSE LET m == media[1]
         IN  IF m.scheme \in {"https://", "http://"}
               THEN IF m.prefix = IanaPrefix
                      THEN MediaTypeOfValue(im, "", "", m.value)   \* text after 'media-types/'
                      ELSE MediaTypeOfValue(im, m.scheme, m.prefix, m.value)
               ELSE MediaTypeOfValue(im, m.scheme, m.prefix, m.value)

\* MediaType.get_suffix
get_suffix(member) ==
    CASE member = "JSON_LD" -> ".jsonld"
      [] member = "HDF5" -> ".hdf5"
      [] member = "TURTLE" -> ".ttl"
      [] member \in {"IGES", "IGS"} -> ".igs"
      [] member = "CSV" -> ".csv"
      [] member = "TXT" -> ".txt"
      [] member \in {"XML", "XML2"} -> ".xml"
      [] OTHER -> ""

\* The target path of a distribution.
TargetPath(im, url, media_type) ==
    IF im = "core"
      THEN LET name == UrlFilename(url)
           IN  Path(compute_sha256(url), FALSE, name.stem,
                    IF name.suffix = "" /\ media_type # "None"
                      THEN get_suffix(media_type) ELSE name.suffix)
      ELSE Path(_url_hash(url), TRUE, "", UrlFilename(url).suffix)

(***************************************************************************)
(* The remote record API (Zenodo) and the record resolver.                 *)
(* A record reference is [sandbox, id]: sandbox tells whether the text     *)
(* holds "10.5072/zenodo", id is Some(n) when the text after the last      *)
(* "zenodo." is the number n and None when it is no number.                *)
(***************************************************************************)
Reference(sandbox, id) == [sandbox |-> sandbox, id |-> id]

\* DistributionMetadata.  media is the media type text the distribution was
\* described with (history); media_type is the field the code keeps: a
\* MediaType member name, "None", or "str" for a plain text of the remote API.
Dist(url, media, media_type, checksum, alg) ==
    [download_url |-> url, media |-> media, media_type |-> media_type,
     checksum |-> checksum, checksum_algorithm |-> alg]

ZFile(name, url, media, checksum, alg) ==
    [name |-> name, download_url |-> url, media |-> media, checksum |-> checksum,
     checksum_algorithm |-> alg]

\* The remote side: the file listing of a record, None when the record
\* cannot be fetched (not found, network error).
ZenodoRecordFiles(sandbox, id) ==
    IF ~sandbox /\ id = 1
      THEN Some(<< ZFile(Url("x", ".ttl"), Url("a", ".ttl"),
                         Some(Media("", "", "text/turtle")), None, None),
                   ZFile(Url("y", ".csv"), Url("c", ".csv"),
                         Some(Media("", "", "text/csv")), None, None),
                   ZFile(Url("z", ".jsonld"), Url("b", ""),
                         Some(Media("", "", "application/ld+json")), Some(32), None) >>)
      ELSE None

RECURSIVE SelectMetadataFiles(_, _)
\* The list comprehension over z.files.items(): the .ttl and .jsonld files,
\* in listing order.  im tells which DistributionMetadata is built.
SelectMetadataFiles(im, files) ==
    IF files = <<>> THEN <<>>
    ELSE LET f == Head(files)
             d == IF im = "core"
                    THEN Dist(f.download_url, f.media,
                              IF f.media = None THEN "None" ELSE "str", f.checksum,
                              IF f.checksum_algorithm # None
                                THEN f.checksum_algorithm
                                ELSE Some([form |-> "plain", tail |-> "md5"]))
                    ELSE Dist(f.download_url, f.media, "None", f.checksum,
                              f.checksum_algorithm)
         IN  IF f.name.suffix \in {".ttl", ".jsonld"}
               THEN <<d>> \o SelectMetadataFiles(im, Tail(files))
               ELSE SelectMetadataFiles(im, Tail(files))

\* (_)get_download_urls_of_metadata_distributions_of_zenodo_record:
\* [ok, err, dists, asked]; asked is the set of references fetched remotely.
zenodo_record_distributions(im, ref) ==
    IF ref.id = None
      THEN [ok |-> FALSE, err |-> "InvalidRecordId", dists |-> <<>>, asked |-> {}]
    ELSE LET files == ZenodoRecordFiles(ref.sandbox, ref.id[1])
         IN  IF files = None
               THEN [ok |-> FALSE, err |-> "RecordError", dists |-> <<>>,
                     asked |-> {ref}]
               ELSE [ok |-> TRUE, err |-> "",
                     dists |-> SelectMetadataFiles(im, files[1]), asked |-> {ref}]

\* _get_download_urls_of_metadata_distributions_of_publisher (core.py).
\* A publisher name is [lower]: its lower-cased text.
publisher_distributions(publisher, ref) ==
    IF publisher.lower # "zenodo"
      THEN [ok |-> FALSE, err |-> "UnsupportedPublisher", dists |-> <<>>, asked |-> {}]
      ELSE zenodo_record_distributions("core", ref)

(***************************************************************************)
(* The catalog: one row per binding of the SELECT.  downloadURL and        *)
(* mediaType are bound together (one OPTIONAL group), checksumValue and    *)
(* checksumAlgorithm are bound together inside it.                         *)
(***************************************************************************)
Row(url, media, checksum, alg, publisher, ref) ==
    [downloadURL |-> url, mediaType |-> media, checksumValue |-> checksum,
     checksumAlgorithm |-> alg, publisherName |-> publisher, identifier |-> ref]

\* One entry of the zipped lists download_urls, target_filenames, checksums,
\* download_flags.
Entry(dist, target, flag) ==
    [url |-> dist.download_url, target |-> target, checksum |-> dist.checksum,
     checksum_algorithm |-> dist.checksum_algorithm, flag |-> flag,
     media |-> dist.media]

RECURSIVE Targets(_)
Targets(entries) ==
    IF entries = <<>> THEN <<>>
    ELSE <<Head(entries).target>> \o Targets(Tail(entries))

Range(seq) == {seq[i] : i \in 1..Len(seq)}

Exists(d, path) == path \in DOMAIN d

\* download_flags.append(...) of the loop over the distributions.
DownloadFlagAlways(target, entries, d, exist_ok) == TRUE

DownloadFlag(target, entries, d, exist_ok) ==
    IF target \in Range(Targets(entries)) THEN FALSE
    ELSE IF Exists(d, target) /\ ~exist_ok THEN FALSE
    ELSE TRUE

\* State of the loop over the rows: the lists so far, the local variable
\* distributions (None while unbound), the directories made, the record
\* references asked for, and the exception that ended the loop ("" if none).
LoopState(entries, distributions, made, asked, err) ==
    [entries |-> entries, distributions |-> distributions, made |-> made,
     asked |-> asked, err |-> err]

Raise(st, kind) == [st EXCEPT !.err = kind]

RECURSIVE AppendTargets(_, _, _, _, _)
\* for d in distributions: ... (core.py 293-315, dbinit.py 214-230)
AppendTargets(im, dists, st, d, exist_ok) ==
    IF dists = <<>> \/ st.err # "" THEN st
    ELSE LET dist == Head(dists)
         IN  IF im = "core" /\ UrlFilename(dist.download_url).suffix = ""
                /\ dist.media_type = "str"
               THEN Raise([st EXCEPT !.made = @ \cup {compute_sha256(dist.download_url)}],
                          "AttributeError")
             ELSE LET target == TargetPath(im, dist.download_url, dist.media_type)
                      flag   == DownloadFlag(target, st.entries, d, exist_ok)
                      made   == IF im = "core"
                                  THEN st.made \cup {compute_sha256(dist.download_url)}
                                  ELSE st.made
                  IN  AppendTargets(im, Tail(dists),
                                    [st EXCEPT !.entries = Append(@, Entry(dist, target, flag)),
                                               !.made = made],
                                    d, exist_ok)

\* Lines 277-282 of core.py: a checksum without algorithm (or the reverse)
\* counts as no checksum.
ChecksumPair(checksum, alg) ==
    IF checksum = None \/ alg = None
      THEN [checksum |-> None, alg |-> None]
      ELSE [checksum |-> checksum, alg |-> alg]

\* The allow-list test at the head of the loop body: TRUE when the row is
\* skipped.
SkipsRow(im, media_type, allowed) ==
    IF im = "core"
      THEN media_type # "None" /\ media_type \notin allowed
      ELSE media_type \notin allowed

\* One iteration of "for r in res.bindings" in core.py.
ProcessRowCore(r, st, allowed, d, exist_ok) ==
    LET media_type == MediaTypeParse("core", r.mediaType)
        has_distributions == r.downloadURL # None
        pair == ChecksumPair(r.checksumValue, r.checksumAlgorithm)
    IN  IF SkipsRow("core", media_type, allowed) THEN st
        ELSE IF ~has_distributions /\ r.publisherName # None
          THEN Raise(st, "KeyError")        \* r[rdflib.Variable("ds")]: ?ds is not selected
        ELSE LET dists == IF has_distributions
                            THEN Some(<<Dist(r.downloadURL[1], r.mediaType, media_type,
                                             pair.checksum, pair.alg)>>)
                            ELSE st.distributions
             IN  IF dists = None THEN Raise(st, "UnboundLocalError")
                 ELSE AppendTargets("core", dists[1],
                                    [st EXCEPT !.distributions = dists], d, exist_ok)

\* One iteration of "for r in res.bindings" in dbinit.py.
ProcessRowDbinit(r, st, allowed, d, exist_ok) ==
    LET media_type == MediaTypeParse("dbinit", r.mediaType)
        has_distributions == r.downloadURL # None
        pair == ChecksumPair(r.checksumValue, r.checksumAlgorithm)
    IN  IF SkipsRow("dbinit", media_type, allowed) THEN st
        ELSE IF ~has_distributions /\ r.publisherName # None
          THEN LET res == zenodo_record_distributions("dbinit", r.identifier)
                   st1 == [st EXCEPT !.asked = @ \cup res.asked]
               IN  IF ~res.ok THEN Raise(st1, res.err)
                   ELSE AppendTargets("dbinit", res.dists,
                                      [st1 EXCEPT !.distributions = Some(res.dists)],
                                      d, exist_ok)
        ELSE IF ~has_distributions
          THEN Raise(st, "KeyError")        \* r[rdflib.Variable("downloadURL")]
        ELSE LET dists == <<Dist(r.downloadURL[1], r.mediaType, "None",
                                 pair.checksum, pair.alg)>>
             IN  AppendTargets("dbinit", dists,
                               [st EXCEPT !.distributions = Some(dists)], d, exist_ok)

ProcessRow(im, r, st, allowed, d, exist_ok) ==
    IF im = "core" THEN ProcessRowCore(r, st, allowed, d, exist_ok)
    ELSE ProcessRowDbinit(r, st, allowed, d, exist_ok)

RECURSIVE Collect(_, _, _, _, _, _)
\* The whole loop over res.bindings; it stops at the first exception.
Collect(im, rows, st, allowed, d, exist_ok) ==
    IF rows = <<>> \/ st.err # "" THEN st
    ELSE Collect(im, Tail(rows), ProcessRow(im, Head(rows), st, allowed, d, exist_ok),
                 allowed, d, exist_ok)

(***************************************************************************)
(* Input domains.                                                          *)
(***************************************************************************)
UrlA == Url("a", ".ttl")       \* a URL whose last segment has a suffix
UrlB == Url("b", "")           \* a URL whose last segment has none
Urls == {UrlA, UrlB}

GoodChunks == << <<0>>, <<>>, <<1>> >>      \* with one keep-alive chunk
GoodBody == <<0, 1>>
Md5Spdx == [form |-> "spdx", tail |-> "md5"]
GoodChecksum == Digest("md5", GoodBody)

\* What the server may answer to a GET of a download URL.
ResponseGood == Resp(FALSE, 200, GoodChunks, None)
ResponseNotFound == Resp(FALSE, 404, <<>>, None)
ResponseCorrupt == Resp(FALSE, 200, << <<1>>, <<1>> >>, None)
ResponseCut == Resp(FALSE, 200, GoodChunks, Some(1))
ResponseNetError == Resp(TRUE, 0, <<>>, None)
Responses == {ResponseGood, ResponseNotFound, ResponseCorrupt, ResponseCut,
              ResponseNetError}

MediaTurtle == Media("", "", "text/turtle")
MediaJsonLdUri == Media("https://", IanaPrefix, "application/ld+json")
MediaUnknown == Media("", "", "foo/bar")
MediaInputs == {MediaTurtle, MediaJsonLdUri, MediaUnknown}

RefFound == Reference(FALSE, Some(1))
RefMissing == Reference(FALSE, Some(2))
RefMalformed == Reference(FALSE, None)
Zenodo == [lower |-> "zenodo"]
Figshare == [lower |-> "figshare"]

\* Rows with a distribution; the distribution of UrlA declares its checksum.
DirectRows ==
    {Row(Some(u), Some(m), IF u = UrlA THEN Some(GoodChecksum) ELSE None,
         IF u = UrlA THEN Some(Md5Spdx) ELSE None, None, RefFound)
       : u \in Urls, m \in MediaInputs}

\* Rows without a distribution: with a publisher (remote resolution) or bare.
RemoteRows ==
    {Row(None, None, None, None, Some(Zenodo), RefFound),
     Row(None, None, None, None, Some(Zenodo), RefMissing),
     Row(None, None, None, None, Some(Zenodo), RefMalformed),
     Row(None, None, None, None, Some(Figshare), RefFound)}

BareRow == Row(None, None, None, None, None, RefFound)

Rows == DirectRows \cup RemoteRows \cup {BareRow}

SeqsUpTo(S, n) == UNION {[1..k -> S] : k \in 0..n}

Catalogs == SeqsUpTo(Rows, MaxRows)

AllowedChoices == {{"TURTLE", "JSON_LD"}, {"None", "JSON_LD"}}

NoFiles == [p \in {} |-> <<>>]

(***************************************************************************)
(* The pipeline: _download_metadata_datasets / download_metadata_datasets. *)
(***************************************************************************)
ResponsesFor(url) == IF server[url] = None THEN Responses ELSE {server[url][1]}

Called(run, e, res) ==
    [run |-> run, url |-> e.url, target |-> e.target, media |-> e.media,
     ok |-> res.ok, err |-> res.err, requested |-> res.requested]

Flagged(entries) == SelectSeq(entries, LAMBDA e : e.flag)

Ended(kind, err) == [kind |-> kind, err |-> err]

Running == Ended("none", "")

IdleDl == [state |-> "unused"]
IdleConf == [state |-> "unused"]
IdleWr == [state |-> "unused"]
IdleMeta == [state |-> "unused"]
IdleSql == [state |-> "unused"]
IdlePlot == [state |-> "unused"]

Init ==
    /\ disk = NoFiles /\ disk0 = NoFiles /\ dirs = {}
    /\ server = [u \in Urls |-> None]
    /\ zenodo = {}
    /\ impl \in {"core", "dbinit"}
    /\ catalog \in Catalogs
    /\ args \in [entry : {"pipeline"}, allowed : AllowedChoices,
                 n_threads : 1..MaxThreads, exist_ok : BOOLEAN,
                 checksums_given : {TRUE}]
    /\ pc = "idle" /\ lists = <<>> /\ idx = 0 /\ tasks = <<>> /\ fut = <<>>
    /\ results = <<>> /\ outcome = Running /\ ret = <<>> /\ log = {} /\ runs = 0
    /\ dl = IdleDl /\ conf = IdleConf /\ wr = IdleWr /\ apptypes = <<>>
    /\ meta = IdleMeta /\ sql = IdleSql /\ plot = IdlePlot

\* The call up to the end of the loop over the rows, and, for n_threads # 1,
\* the submission of the flagged targets to the executor.
StartRun ==
    /\ pc = "idle" /\ args.entry = "pipeline" /\ runs < MaxRuns
    /\ LET st == Collect(impl, catalog, LoopState(<<>>, None, {}, {}, ""),
                         args.allowed, disk, args.exist_ok)
       IN  /\ runs' = runs + 1
           /\ disk0' = disk
           /\ dirs' = dirs \cup st.made
           /\ zenodo' = zenodo \cup st.asked
           /\ lists' = st.entries
           /\ results' = <<>> /\ ret' = <<>> /\ idx' = 1
           /\ IF st.err # ""
                THEN /\ pc' = "idle" /\ outcome' = Ended("raised", st.err)
                     /\ tasks' = <<>> /\ fut' = <<>>
              ELSE IF args.n_threads = 1
                THEN /\ pc' = "seq" /\ outcome' = Running
                     /\ tasks' = <<>> /\ fut' = <<>>
                ELSE /\ pc' = "pool" /\ outcome' = Running
                     /\ tasks' = Flagged(st.entries)
                     /\ fut' = [i \in 1..Len(Flagged(st.entries)) |-> "pending"]
    /\ UNCHANGED <<disk, server, impl, catalog, args, log, dl, conf, wr, apptypes>>
    /\ UNCHANGED <<meta, sql, plot>>

\* One iteration of the loop of the n_threads == 1 branch.
SeqStep ==
    /\ pc = "seq" /\ idx <= Len(lists)
    /\ LET e == lists[idx]
       IN  IF ~e.flag \/ (Exists(disk, e.target) /\ ~args.exist_ok)
             THEN /\ idx' = idx + 1
                  /\ UNCHANGED <<disk, server, log, results, outcome, pc>>
             ELSE \E resp \in ResponsesFor(e.url) :
                    LET res == download_file(resp, e.target, e.checksum,
                                             e.checksum_algorithm, disk)
                    IN  /\ disk' = res.disk
                        /\ server' = IF res.requested
                                       THEN [server EXCEPT ![e.url] = Some(resp)]
                                       ELSE server
                        /\ log' = log \cup {Called(runs, e, res)}
                        /\ IF res.ok
                             THEN /\ results' = Append(results, e.target)
                                  /\ idx' = idx + 1
                                  /\ UNCHANGED <<outcome, pc>>
                             ELSE /\ outcome' = Ended("raised", res.err)
                                  /\ pc' = "idle"
                                  /\ UNCHANGED <<results, idx>>
    /\ UNCHANGED <<zenodo, impl, dirs, catalog, args, lists, tasks, fut, ret, disk0,
                   runs, dl, conf, wr, apptypes>>
    /\ UNCHANGED <<meta, sql, plot>>

\* return target_filenames, after the sequential loop.
SeqReturn ==
    /\ pc = "seq" /\ idx > Len(lists)
    /\ ret' = Targets(lists)
    /\ outcome' = Ended("returned", "")
    /\ pc' = "idle"
    /\ UNCHANGED <<disk, server, zenodo, impl, dirs, catalog, args, lists, idx, tasks,
                   fut, results, log, disk0, runs, dl, conf, wr, apptypes>>
    /\ UNCHANGED <<meta, sql, plot>>

(***************************************************************************)
(* download_multiple_files with max_workers > 1: a ThreadPoolExecutor.     *)
(***************************************************************************)
NumRunning == Cardinality({i \in 1..Len(fut) : fut[i] = "running"})

WorkerAlwaysFree == TRUE

\* The executor runs at most max_workers worker threads.
WorkerFree == NumRunning < args.n_threads

\* A worker thread takes the oldest queued work item.
WorkerStart(i) ==
    /\ pc = "pool" /\ i \in 1..Len(fut) /\ fut[i] = "pending"
    /\ \A j \in 1..(i - 1) : fut[j] # "pending"
    /\ WorkerFree
    /\ fut' = [fut EXCEPT ![i] = "running"]
    /\ UNCHANGED <<disk, server, zenodo, impl, dirs, catalog, args, pc, lists, idx,
                   tasks, results, outcome, ret, log, disk0, runs, dl, conf, wr, apptypes>>
    /\ UNCHANGED <<meta, sql, plot>>

\* The worker's download_file call runs to its end.
WorkerFinish(i) ==
    /\ pc = "pool" /\ i \in 1..Len(fut) /\ fut[i] = "running"
    /\ \E resp \in ResponsesFor(tasks[i].url) :
         LET e == tasks[i]
             res == download_file(resp, e.target, e.checksum, e.checksum_algorithm, disk)
         IN  /\ disk' = res.disk
             /\ server' = IF res.requested THEN [server EXCEPT ![e.url] = Some(resp)]
                          ELSE server
             /\ log' = log \cup {Called(runs, e, res)}
             /\ fut' = [fut EXCEPT ![i] = IF res.ok THEN "ok" ELSE "err"]
    /\ UNCHANGED <<zenodo, impl, dirs, catalog, args, pc, lists, idx, tasks, results,
                   outcome, ret, disk0, runs, dl, conf, wr, apptypes>>
    /\ UNCHANGED <<meta, sql, plot>>

\* try: results.append(future.result()) except Exception: print(...)
AwaitedNothing(res, status, target) == res

Awaited(res, status, target) == IF status = "ok" THEN Append(res, target) ELSE res

FutureDoneAlways(status) == TRUE

\* future.result() blocks until the future has finished.
FutureDone(status) == status \in {"ok", "err"}

\* for future in futures: the main thread waits for the next future.
Await ==
    /\ pc = "pool" /\ idx <= Len(tasks) /\ FutureDone(fut[idx])
    /\ results' = Awaited(results, fut[idx], tasks[idx].target)
    /\ idx' = idx + 1
    /\ UNCHANGED <<disk, server, zenodo, impl, dirs, catalog, args, pc, lists, tasks,
                   fut, outcome, ret, log, disk0, runs, dl, conf, wr, apptypes>>
    /\ UNCHANGED <<meta, sql, plot>>

\* download_multiple_files returns results; the pipeline drops them and
\* returns target_filenames.
PoolReturn ==
    /\ pc = "pool" /\ idx > Len(tasks)
    /\ ret' = IF args.entry = "pipeline" THEN Targets(lists) ELSE results
    /\ outcome' = Ended("returned", "")
    /\ pc' = "idle"
    /\ UNCHANGED <<disk, server, zenodo, impl, dirs, catalog, args, lists, idx, tasks,
                   fut, results, log, disk0, runs, dl, conf, wr, apptypes>>
    /\ UNCHANGED <<meta, sql, plot>>

Next ==
    \/ StartRun
    \/ SeqStep
    \/ SeqReturn
    \/ \E i \in 1..Len(fut) : WorkerStart(i)
    \/ \E i \in 1..Len(fut) : WorkerFinish(i)
    \/ Await
    \/ PoolReturn

Spec == Init /\ [][Next]_vars

(***************************************************************************)
(* download_multiple_files called directly (args.n_threads is max_workers, *)
(* args.checksums_given = FALSE is the default checksums=None).            *)
(***************************************************************************)
\* The caller names the target of every URL: a path of its own, or, for
\* UrlB, also the path it gave to UrlA.
BatchTasks ==
    {Entry(Dist(u, None, "None", c.checksum, c.alg), TargetPath("dbinit", u, "None"), TRUE)
       : u \in Urls, c \in {ChecksumPair(None, None),
                            ChecksumPair(Some(GoodChecksum), Some(Md5Spdx))}}
    \cup {Entry(Dist(UrlB, None, "None", None, None), TargetPath("dbinit", UrlA, "None"),
                TRUE)}

InitBatch ==
    /\ disk = NoFiles /\ disk0 = NoFiles /\ dirs = {}
    /\ server = [u \in Urls |-> None]
    /\ zenodo = {}
    /\ impl = "dbinit"
    /\ catalog = <<>>
    /\ args \in [entry : {"batch"}, allowed : {{}}, n_threads : 1..MaxThreads,
                 exist_ok : {TRUE}, checksums_given : BOOLEAN]
    /\ tasks \in SeqsUpTo(BatchTasks, MaxBatch)
    /\ pc = "idle" /\ lists = <<>> /\ idx = 0 /\ fut = <<>>
    /\ results = <<>> /\ outcome = Running /\ ret = <<>> /\ log = {} /\ runs = 0
    /\ dl = IdleDl /\ conf = IdleConf /\ wr = IdleWr /\ apptypes = <<>>
    /\ meta = IdleMeta /\ sql = IdleSql /\ plot = IdlePlot

\* Entry of the call: zip(urls, target_filenames, checksums) and the choice
\* of the branch.
BatchCall ==
    /\ pc = "idle" /\ args.entry = "batch" /\ runs = 0
    /\ runs' = 1 /\ idx' = 1
    /\ IF ~args.checksums_given
         THEN /\ outcome' = Ended("raised", "TypeError")     \* zip(..., None)
              /\ UNCHANGED <<pc, fut>>
       ELSE IF args.n_threads = 1
         THEN /\ pc' = "bseq" /\ UNCHANGED <<outcome, fut>>
         ELSE /\ pc' = "pool" /\ fut' = [i \in 1..Len(tasks) |-> "pending"]
              /\ UNCHANGED outcome
    /\ UNCHANGED <<disk, server, zenodo, impl, dirs, catalog, args, lists, tasks,
                   results, ret, log, disk0, dl, conf, wr, apptypes>>
    /\ UNCHANGED <<meta, sql, plot>>

\* One element of the list comprehension of the max_workers == 1 branch.
BatchSeqStep ==
    /\ pc = "bseq" /\ idx <= Len(tasks)
    /\ \E resp \in ResponsesFor(tasks[idx].url) :
         LET e == tasks[idx]
             res == download_file(resp, e.target, e.checksum, e.checksum_algorithm, disk)
         IN  /\ disk' = res.disk
             /\ server' = IF res.requested THEN [server EXCEPT ![e.url] = Some(resp)]
                          ELSE server
             /\ log' = log \cup {Called(runs, e, res)}
             /\ IF res.ok
                  THEN /\ results' = Append(results, e.target)
                       /\ idx' = idx + 1
                       /\ UNCHANGED <<outcome, pc>>
                  ELSE /\ outcome' = Ended("raised", res.err)
                       /\ pc' = "idle"
                       /\ UNCHANGED <<results, idx>>
    /\ UNCHANGED <<zenodo, impl, dirs, catalog, args, lists, tasks, fut, ret, disk0,
                   runs, dl, conf, wr, apptypes>>
    /\ UNCHANGED <<meta, sql, plot>>

BatchSeqReturn ==
    /\ pc = "bseq" /\ idx > Len(tasks)
    /\ ret' = results
    /\ outcome' = Ended("returned", "")
    /\ pc' = "idle"
    /\ UNCHANGED <<disk, server, zenodo, impl, dirs, catalog, args, lists, idx, tasks,
                   fut, results, log, disk0, runs, dl, conf, wr, apptypes>>
    /\ UNCHANGED <<meta, sql, plot>>

NextBatch ==
    \/ BatchCall
    \/ BatchSeqStep
    \/ BatchSeqReturn
    \/ \E i \in 1..Len(fut) : WorkerStart(i)
    \/ \E i \in 1..Len(fut) : WorkerFinish(i)
    \/ Await
    \/ PoolReturn

SpecBatch == InitBatch /\ [][NextBatch]_vars

\* The same, when every thread that can take a step eventually takes one:
\* the executor starts queued work, every download_file call comes to an end
\* and the main thread is scheduled.
SpecBatchFair == SpecBatch /\ WF_vars(NextBatch)

(***************************************************************************)
(* download_file called directly.                                          *)
(***************************************************************************)
Bytes == 0..MaxByte
Chunks == {<<>>} \cup {<<b>> : b \in Bytes}
Bodies == SeqsUpTo(Chunks, MaxChunks)

DirectResponses ==
    {Resp(FALSE, st, body, None) : st \in {200, 404}, body \in Bodies}
      \cup UNION {{Resp(FALSE, 200, body, Some(n)) : n \in 0..(Len(body) - 1)}
                    : body \in Bodies}
      \cup {ResponseNetError}

AlgInputs ==
    {[form |-> "plain", tail |-> "sha256"], [form |-> "plain", tail |-> "md-5"],
     [form |-> "plain", tail |-> "sha512"], [form |-> "spdx", tail |-> "sha1"],
     [form |-> "http", tail |-> "SHA256"], [form |-> "http", tail |-> "crc32"]}

DirectTarget == TargetPath("dbinit", UrlA, "None")

InitDownload ==
    /\ disk \in {NoFiles, WriteFile(NoFiles, DirectTarget, <<0>>)}
    /\ disk0 = disk /\ dirs = {}
    /\ server = [u \in Urls |-> None]
    /\ zenodo = {} /\ impl = "dbinit" /\ catalog = <<>>
    /\ args = [entry |-> "download", allowed |-> {}, n_threads |-> 1,
               exist_ok |-> TRUE, checksums_given |-> TRUE]
    /\ pc = "idle" /\ lists = <<>> /\ idx = 0 /\ tasks = <<>> /\ fut = <<>>
    /\ results = <<>> /\ outcome = Running /\ ret = <<>> /\ log = {} /\ runs = 0
    /\ \E resp \in DirectResponses, c \in {None} \cup {Some(h) : h \in 0..(HashMod - 1)},
          a \in {None} \cup {Some(x) : x \in AlgInputs} :
         dl = [state |-> "call", resp |-> resp, target |-> DirectTarget,
               checksum |-> c, checksum_algorithm |-> a]
    /\ conf = IdleConf /\ wr = IdleWr /\ apptypes = <<>>
    /\ meta = IdleMeta /\ sql = IdleSql /\ plot = IdlePlot

\* The call download_file(url, target, checksum, checksum_algorithm).
DownloadFileCall ==
    /\ dl.state = "call"
    /\ LET res == download_file(dl.resp, dl.target, dl.checksum, dl.checksum_algorithm,
                                disk)
       IN  /\ disk' = res.disk
           /\ dl' = [state |-> "done", resp |-> dl.resp, target |-> dl.target,
                     checksum |-> dl.checksum,
                     checksum_algorithm |-> dl.checksum_algorithm,
                     ok |-> res.ok, err |-> res.err, requested |-> res.requested]
    /\ UNCHANGED <<server, zenodo, impl, dirs, catalog, args, pc, lists, idx, tasks, fut,
                   results, outcome, ret, log, disk0, runs, conf, wr, apptypes>>
    /\ UNCHANGED <<meta, sql, plot>>

NextDownload == DownloadFileCall

SpecDownload == InitDownload /\ [][NextDownload]_vars

(***************************************************************************)
(* opencefadb/database/dbinit.py: download_metadata_datasets, which        *)
(* initialize_database calls with the default n_threads.  The SELECT of    *)
(* one application type binds the rows whose mediaType is the literal      *)
(* value of that type.                                                     *)
(***************************************************************************)
ApplicationTypeValue(member) ==
    CASE member = "JSON_LD" -> "application/ld+json"
      [] member = "TURTLE" -> "text/turtle"
      [] OTHER -> "model/iges"

MatchesType(r, member) ==
    /\ r.downloadURL # None /\ r.mediaType # None
    /\ r.mediaType[1] = Media("", "", ApplicationTypeValue(member))

\* identifier.rsplit('.', 1)[-1] of an identifier that starts with "http".
IdentifierTail(ref) == ref.id

\* download_dir / f"{filename.stem}_{identifier}{filename.suffix}"
DatabaseTarget(url, ref) ==
    [stem |-> UrlFilename(url).stem, identifier |-> IdentifierTail(ref),
     suffix |-> UrlFilename(url).suffix]

\* download_urls and target_filenames of one application type, zipped.
RECURSIVE DatabaseEntries(_, _)
DatabaseEntries(rows, member) ==
    IF rows = <<>> THEN <<>>
    ELSE LET r == Head(rows)
             rest == DatabaseEntries(Tail(rows), member)
         IN  IF MatchesType(r, member)
               THEN <<Entry(Dist(r.downloadURL[1], r.mediaType, member, None, None),
                            DatabaseTarget(r.downloadURL[1], r.identifier), TRUE)>>
                    \o rest
               ELSE rest

\* checksums: Optional[List[Dict]] = None
DefaultChecksums == None

\* zip(urls, target_filenames, checksums) raises TypeError unless checksums
\* is iterable.
ZipOk(checksums) == checksums # None

MediaJsonLd == Media("", "", "application/ld+json")

DatabaseRows ==
    {Row(Some(u), Some(m), None, None, None, RefFound)
       : u \in Urls, m \in {MediaTurtle, MediaJsonLd, MediaUnknown}}

ApplicationTypeChoices == {<<"JSON_LD", "TURTLE">>, <<"TURTLE">>, <<>>}

InitDatabase ==
    /\ disk = NoFiles /\ disk0 = NoFiles /\ dirs = {}
    /\ server = [u \in Urls |-> None]
    /\ zenodo = {}
    /\ impl = "database"
    /\ catalog \in SeqsUpTo(DatabaseRows, MaxRows)
    /\ args \in [entry : {"database"}, application_types : ApplicationTypeChoices,
                 n_threads : 1..MaxThreads, exist_ok : {TRUE},
                 checksums_given : {FALSE}]
    /\ pc = "idle" /\ lists = <<>> /\ idx = 0 /\ tasks = <<>> /\ fut = <<>>
    /\ results = <<>> /\ outcome = Running /\ ret = <<>> /\ log = {} /\ runs = 0
    /\ dl = IdleDl /\ conf = IdleConf /\ wr = IdleWr /\ apptypes = <<>>
    /\ meta = IdleMeta /\ sql = IdleSql /\ plot = IdlePlot

\* all_files = []; for application_type in application_types:
DatabaseStart ==
    /\ pc = "idle" /\ runs = 0
    /\ runs' = 1 /\ pc' = "types"
    /\ apptypes' = args.application_types
    /\ results' = <<>>
    /\ UNCHANGED <<disk, server, zenodo, impl, dirs, catalog, args, lists, idx, tasks,
                   fut, outcome, ret, log, disk0, dl, conf, wr>>
    /\ UNCHANGED <<meta, sql, plot>>

\* The query of one application type and the lists built from its bindings.
DatabaseQuery ==
    /\ pc = "types" /\ apptypes # <<>>
    /\ lists' = DatabaseEntries(catalog, Head(apptypes))
    /\ idx' = 1 /\ pc' = "rows"
    /\ UNCHANGED <<disk, server, zenodo, impl, dirs, catalog, args, tasks, fut, results,
                   outcome, ret, log, disk0, runs, dl, conf, wr, apptypes>>
    /\ UNCHANGED <<meta, sql, plot>>

\* One iteration of the loop over the bindings: with n_threads == 1 the file
\* is downloaded at once, without checksum.
DatabaseRow ==
    /\ pc = "rows" /\ idx <= Len(lists)
    /\ IF args.n_threads # 1
         THEN /\ idx' = idx + 1
              /\ UNCHANGED <<disk, server, log, outcome, pc>>
         ELSE \E resp \in ResponsesFor(lists[idx].url) :
                LET e == lists[idx]
                    res == download_file(resp, e.target, None, None, disk)
                IN  /\ disk' = res.disk
                    /\ server' = IF res.requested
                                   THEN [server EXCEPT ![e.url] = Some(resp)]
                                   ELSE server
                    /\ log' = log \cup {Called(runs, e, res)}
                    /\ IF res.ok
                         THEN /\ idx' = idx + 1 /\ UNCHANGED <<outcome, pc>>
                         ELSE /\ outcome' = Ended("raised", res.err)
                              /\ pc' = "idle" /\ UNCHANGED idx
    /\ UNCHANGED <<zenodo, impl, dirs, catalog, args, lists, tasks, fut, results, ret,
                   disk0, runs, dl, conf, wr, apptypes>>
    /\ UNCHANGED <<meta, sql, plot>>

\* all_files.extend(download_multiple_files(download_urls, target_filenames)):
\* max_workers and checksums take their defaults, so the zip of the call
\* raises and the rest of the loop body is never reached.
DatabaseBatchCall ==
    /\ pc = "rows" /\ idx > Len(lists)
    /\ tasks' = lists
    /\ IF ~ZipOk(DefaultChecksums)
         THEN /\ outcome' = Ended("raised", "TypeError")
              /\ pc' = "idle" /\ UNCHANGED fut
         ELSE /\ pc' = "pool" /\ fut' = [i \in 1..Len(lists) |-> "pending"]
              /\ UNCHANGED outcome
    /\ UNCHANGED <<disk, server, zenodo, impl, dirs, catalog, args, lists, idx, results,
                   ret, log, disk0, runs, dl, conf, wr, apptypes>>
    /\ UNCHANGED <<meta, sql, plot>>

\* return all_files, once the loop over the application types is over.
DatabaseReturn ==
    /\ pc = "types" /\ apptypes = <<>>
    /\ ret' = results
    /\ outcome' = Ended("returned", "")
    /\ pc' = "idle"
    /\ UNCHANGED <<disk, server, zenodo, impl, dirs, catalog, args, lists, idx, tasks,
                   fut, results, log, disk0, runs, dl, conf, wr, apptypes>>
    /\ UNCHANGED <<meta, sql, plot>>

NextDatabase ==
    \/ DatabaseStart
    \/ DatabaseQuery
    \/ DatabaseRow
    \/ DatabaseBatchCall
    \/ DatabaseReturn

SpecDatabase == InitDatabase /\ [][NextDatabase]_vars

(***************************************************************************)
(* opencefadb/configuration.py and opencefadb/database/core.py: the        *)
(* module globals _config and _db_instance of one process.  conf holds     *)
(*   file      the sections of the config file, None while it is missing   *)
(*   setup     the profile stored in the setup file                        *)
(*   objs      the OpenCeFaDBConfiguration objects created so far          *)
(*   cur       _config: 0 for None, else an index into objs                *)
(*   insts     the OpenCeFaDB objects created so far                       *)
(*   db        _db_instance: 0 for None, else an index into insts          *)
(*   handles   history: the objects the client got from get_config/delete  *)
(*   stale     history: how many of the handles were got before the last   *)
(*             delete()                                                    *)
(*   selected  history: the profile of the last successful select_profile  *)
(*   prev,last history: the last two calls of the client                   *)
(***************************************************************************)
DefaultSections == {"DEFAULT", "test", "local_graphdb.test", "local_sql.test"}
CustomSections == {"DEFAULT", "custom"}
ProfileInputs == {"DEFAULT", "test", "local_graphdb.test", "custom"}

\* cfg.rawdata_store and cfg.metadata_datastore of a profile.
rawdata_store(profile) == IF profile = "custom" THEN "other" ELSE "hdf5_sql_db"
metadata_datastore(profile) ==
    IF profile = "local_graphdb.test" THEN "local_graphdb" ELSE "rdf_file_db"

ConfigNeverCached(c) == FALSE

\* if _config: return _config
ConfigCached(c) == c # 0

\* get_config(): conf after the call; the object returned is its cur.
get_config(c) ==
    IF ConfigCached(c.cur) THEN c
    ELSE LET sections == IF c.file # None THEN c.file[1] ELSE DefaultSections
         IN  [c EXCEPT !.file = Some(sections),
                       !.objs = Append(c.objs, [profile |-> c.setup,
                                                sections |-> sections]),
                       !.cur = Len(c.objs) + 1]

\* OpenCeFaDBConfiguration.select_profile on the object o.
select_profile(c, o, profile) ==
    IF profile \notin c.objs[o].sections
      THEN [ok |-> FALSE, c |-> c]
      ELSE [ok |-> TRUE,
            c |-> [c EXCEPT !.setup = profile, !.objs[o].profile = profile,
                            !.selected = Some(profile)]]

CacheNever(cfg_profile, profile, instance) == FALSE

\* if cfg.profile == profile: if _db_instance: return _db_instance
CacheHit(cfg_profile, profile, instance) == cfg_profile = profile /\ instance # 0

CallRec(op, profile, ok, result) ==
    [op |-> op, profile |-> profile, ok |-> ok, result |-> result]

\* connect_to_database(profile); store_ok tells whether the constructors of
\* the stores succeed.  The result is conf after the call and its outcome.
connect_to_database(c0, profile, store_ok) ==
    LET c == get_config(c0)
        sel == select_profile(c, c.cur, profile)
    IN  IF CacheHit(c.objs[c.cur].profile, profile, c.db)
          THEN [c |-> c, ok |-> TRUE, err |-> "", result |-> c.db]
        ELSE IF ~sel.ok
          THEN [c |-> c, ok |-> FALSE, err |-> "ValueError", result |-> 0]
        ELSE IF rawdata_store(profile) \notin {"hdf5_file_db", "hdf5_sql_db"}
          THEN [c |-> sel.c, ok |-> FALSE, err |-> "TypeError", result |-> 0]
        ELSE IF metadata_datastore(profile) \notin {"rdf_file_db", "local_graphdb"}
          THEN [c |-> sel.c, ok |-> FALSE, err |-> "TypeError", result |-> 0]
        ELSE IF ~store_ok
          THEN [c |-> sel.c, ok |-> FALSE, err |-> "StoreError", result |-> 0]
        ELSE [c |-> [sel.c EXCEPT !.insts = Append(sel.c.insts,
                                      [profile |-> profile,
                                       rdf |-> metadata_datastore(profile)]),
                                  !.db = Len(sel.c.insts) + 1],
              ok |-> TRUE, err |-> "", result |-> Len(sel.c.insts) + 1]

NoCall == CallRec("none", "", TRUE, 0)

Called2(c, rec) == [c EXCEPT !.prev = c.last, !.last = rec, !.calls = c.calls + 1]

InitConfig ==
    /\ disk = NoFiles /\ disk0 = NoFiles /\ dirs = {}
    /\ server = [u \in Urls |-> None]
    /\ zenodo = {} /\ impl = "core" /\ catalog = <<>>
    /\ args = [entry |-> "config", allowed |-> {}, n_threads |-> 1,
               exist_ok |-> TRUE, checksums_given |-> TRUE]
    /\ pc = "idle" /\ lists = <<>> /\ idx = 0 /\ tasks = <<>> /\ fut = <<>>
    /\ results = <<>> /\ outcome = Running /\ ret = <<>> /\ log = {} /\ runs = 0
    /\ dl = IdleDl /\ wr = IdleWr /\ apptypes = <<>>
    /\ meta = IdleMeta /\ sql = IdleSql /\ plot = IdlePlot
    /\ \E f \in {None, Some(DefaultSections), Some(CustomSections)},
          sp \in {"DEFAULT", "test"} :
         conf = [state |-> "live", file |-> f, setup |-> sp, objs |-> <<>>, cur |-> 0,
                 insts |-> <<>>, db |-> 0, handles |-> <<>>, stale |-> 0,
                 selected |-> None, prev |-> NoCall, last |-> NoCall, calls |-> 0]

OthersUnchanged ==
    UNCHANGED <<disk, server, zenodo, impl, dirs, catalog, args, pc, lists, idx, tasks,
                fut, results, outcome, ret, log, disk0, runs, dl, wr, apptypes,
                meta, sql, plot>>

\* cfg = get_config()
GetConfigCall ==
    /\ conf.calls < MaxCalls
    /\ LET c == get_config(conf)
       IN  conf' = Called2([c EXCEPT !.handles = Append(c.handles, c.cur)],
                           CallRec("get_config", "", TRUE, c.cur))
    /\ OthersUnchanged

\* cfg.select_profile(profile), through any handle the client holds.
SelectProfileCall ==
    /\ conf.calls < MaxCalls
    /\ \E h \in 1..Len(conf.handles), profile \in ProfileInputs :
         LET r == select_profile(conf, conf.handles[h], profile)
         IN  conf' = Called2(r.c, CallRec("select_profile", profile, r.ok,
                                         conf.handles[h]))
    /\ OthersUnchanged

\* cfg.delete(), through any handle: the config file is renamed, _config is
\* reset and a new configuration is returned.
DeleteCall ==
    /\ conf.calls < MaxCalls
    /\ Len(conf.handles) > 0
    /\ LET c == get_config([conf EXCEPT !.file = None, !.cur = 0])
       IN  conf' = Called2([c EXCEPT !.stale = Len(conf.handles),
                                    !.handles = Append(conf.handles, c.cur)],
                           CallRec("delete", "", TRUE, c.cur))
    /\ OthersUnchanged

\* db = connect_to_database(profile)
ConnectCall ==
    /\ conf.calls < MaxCalls
    /\ \E profile \in ProfileInputs, store_ok \in BOOLEAN :
         LET r == connect_to_database(conf, profile, store_ok)
         IN  conf' = Called2(r.c, CallRec("connect", profile, r.ok, r.result))
    /\ OthersUnchanged

NextConfig ==
    \/ GetConfigCall
    \/ SelectProfileCall
    \/ DeleteCall
    \/ ConnectCall

SpecConfig == InitConfig /\ [][NextConfig]_vars

(***************************************************************************)
(* Two pipeline runs (two processes) over one download directory, both     *)
(* with exist_ok=True and both downloading RaceUrl.  Each run is followed  *)
(* through its download_file call; wr[w] holds the position of run w:      *)
(*   at      "start", "requested", "open", "closed"                        *)
(*   chunks  the chunks of the response this run was given                 *)
(*   pos     how many of them the loop over iter_content has consumed      *)
(*   off     the offset of this run's file object                          *)
(* A file object opened with 'wb' truncates the file when it is opened and *)
(* writes at its own offset; a gap below the offset reads as zero bytes.   *)
(***************************************************************************)
Writers == {1, 2}

RaceUrl == UrlA

RaceTarget == TargetPath("core", RaceUrl, "TURTLE")

Writer(at, chunks, pos, off) == [at |-> at, chunks |-> chunks, pos |-> pos, off |-> off]

\* f.write(chunk) at offset off of a file holding the bytes old.
WriteAt(old, off, chunk) ==
    LET n == IF Len(old) > off + Len(chunk) THEN Len(old) ELSE off + Len(chunk)
    IN  [k \in 1..n |-> IF k > off /\ k <= off + Len(chunk) THEN chunk[k - off]
                        ELSE IF k <= Len(old) THEN old[k]
                        ELSE 0]

InitRace ==
    /\ disk \in {NoFiles, WriteFile(NoFiles, RaceTarget, <<0>>)}
    /\ disk0 = disk /\ dirs = {}
    /\ server = [u \in Urls |-> None]
    /\ zenodo = {} /\ impl = "core" /\ catalog = <<>>
    /\ args = [entry |-> "race", allowed |-> {}, n_threads |-> 1,
               exist_ok |-> TRUE, checksums_given |-> TRUE]
    /\ pc = "idle" /\ lists = <<>> /\ idx = 0 /\ tasks = <<>> /\ fut = <<>>
    /\ results = <<>> /\ outcome = Running /\ ret = <<>> /\ log = {} /\ runs = 0
    /\ dl = IdleDl /\ conf = IdleConf /\ apptypes = <<>>
    /\ meta = IdleMeta /\ sql = IdleSql /\ plot = IdlePlot
    /\ wr = [w \in Writers |-> Writer("start", <<>>, 0, 0)]

RaceOthersUnchanged ==
    UNCHANGED <<server, zenodo, impl, dirs, catalog, args, pc, lists, idx, tasks, fut,
                results, outcome, ret, log, disk0, runs, dl, conf, apptypes,
                meta, sql, plot>>

\* The run flags the target for download and its GET is answered: the body
\* served may differ from one request to the next.
RaceRequest(w) ==
    /\ wr[w].at = "start"
    /\ DownloadFlag(RaceTarget, <<>>, disk, args.exist_ok)
    /\ \E chunks \in Bodies : wr' = [wr EXCEPT ![w] = Writer("requested", chunks, 0, 0)]
    /\ UNCHANGED disk
    /\ RaceOthersUnchanged

\* open(target_filename, 'wb')
RaceOpen(w) ==
    /\ wr[w].at = "requested"
    /\ disk' = WriteFile(disk, RaceTarget, <<>>)
    /\ wr' = [wr EXCEPT ![w].at = "open"]
    /\ RaceOthersUnchanged

\* One iteration of the loop over iter_content: a non-empty chunk is written.
RaceWrite(w) ==
    /\ wr[w].at = "open" /\ wr[w].pos < Len(wr[w].chunks)
    /\ LET chunk == wr[w].chunks[wr[w].pos + 1]
       IN  /\ disk' = IF chunk = <<>> THEN disk
                      ELSE WriteFile(disk, RaceTarget,
                                     WriteAt(disk[RaceTarget], wr[w].off, chunk))
           /\ wr' = [wr EXCEPT ![w].pos = @ + 1, ![w].off = @ + Len(chunk)]
    /\ RaceOthersUnchanged

\* The end of the with block: the file object is closed.
RaceClose(w) ==
    /\ wr[w].at = "open" /\ wr[w].pos = Len(wr[w].chunks)
    /\ wr' = [wr EXCEPT ![w].at = "closed"]
    /\ UNCHANGED disk
    /\ RaceOthersUnchanged

NextRace ==
    \/ \E w \in Writers : RaceRequest(w)
    \/ \E w \in Writers : RaceOpen(w)
    \/ \E w \in Writers : RaceWrite(w)
    \/ \E w \in Writers : RaceClose(w)

SpecRace == InitRace /\ [][NextRace]_vars

(***************************************************************************)
(* _get_metadata_datasets(config_filename, config_dir) of core.py and of   *)
(* dbinit.py (the same code).  meta holds                                  *)
(*   file     None when config_filename does not exist, else Some of its   *)
(*            content, a record [format, tag]                              *)
(*   suffix   config_filename.suffix                                       *)
(*   dir      None when config_dir does not exist, else Some of the        *)
(*            function file name -> content of the directory               *)
(* and, once the call is done, ok, err, fmt (the format handed to          *)
(* g.parse, "" if none) and dir0 (the directory as it was before).         *)
(***************************************************************************)
Suffixes == {".ttl", ".json", ".jsonld", ".json-ld", ".txt", ""}

Content(format, tag) == [format |-> format, tag |-> tag]

\* config_dir / f"db-dataset-config.{config_suffix}"
ConfigCopyName(suffix) == [stem |-> "db-dataset-config.", suffix |-> suffix]

OtherName == [stem |-> "notes", suffix |-> ".txt"]

FormatAlwaysTurtle(suffix) == "ttl"

\* The chain if config_suffix == '.ttl' ... elif ... else raise: the format,
\* "" for the ValueError.
FormatOfSuffix(suffix) ==
    IF suffix = ".ttl" THEN "ttl"
    ELSE IF suffix \in {".json", ".jsonld", ".json-ld"} THEN "json-ld"
    ELSE ""

\* The whole function on the arguments and file system m: [ok, err, fmt, dir].
get_metadata_datasets(m) ==
    IF m.file = None
      THEN [ok |-> FALSE, err |-> "FileNotFoundError", fmt |-> "", dir |-> m.dir]
    ELSE IF m.dir = None
      THEN [ok |-> FALSE, err |-> "FileNotFoundError", fmt |-> "", dir |-> m.dir]
    ELSE LET copied == Some((ConfigCopyName(m.suffix) :> m.file[1]) @@ m.dir[1])
             fmt    == FormatOfSuffix(m.suffix)
         IN  IF fmt = ""
               THEN [ok |-> FALSE, err |-> "UnsupportedSuffix", fmt |-> "", dir |-> copied]
             ELSE IF m.file[1].format # fmt
               THEN [ok |-> FALSE, err |-> "ParseError", fmt |-> fmt, dir |-> copied]
             ELSE [ok |-> TRUE, err |-> "", fmt |-> fmt, dir |-> copied]

ConfigDirectories(suffix) ==
    {None, Some(NoFiles),
     Some(ConfigCopyName(suffix) :> Content("ttl", "old")),
     Some(OtherName :> Content("text", "old"))}

InitMeta ==
    /\ disk = NoFiles /\ disk0 = NoFiles /\ dirs = {}
    /\ server = [u \in Urls |-> None]
    /\ zenodo = {} /\ catalog = <<>>
    /\ impl \in {"core", "dbinit"}
    /\ args = [entry |-> "metadata", allowed |-> {}, n_threads |-> 1,
               exist_ok |-> TRUE, checksums_given |-> TRUE]
    /\ pc = "idle" /\ lists = <<>> /\ idx = 0 /\ tasks = <<>> /\ fut = <<>>
    /\ results = <<>> /\ outcome = Running /\ ret = <<>> /\ log = {} /\ runs = 0
    /\ dl = IdleDl /\ conf = IdleConf /\ wr = IdleWr /\ apptypes = <<>>
    /\ sql = IdleSql /\ plot = IdlePlot
    /\ \E suffix \in Suffixes,
          file \in {None} \cup {Some(Content(f, "new")) : f \in {"ttl", "json-ld", "text"}} :
         \E dir \in ConfigDirectories(suffix) :
            meta = [state |-> "call", file |-> file, suffix |-> suffix, dir |-> dir]

\* g = _get_metadata_datasets(config_filename, config_dir)
GetMetadataDatasetsCall ==
    /\ meta.state = "call"
    /\ LET r == get_metadata_datasets(meta)
       IN  meta' = [state |-> "done", file |-> meta.file, suffix |-> meta.suffix,
                    dir |-> r.dir, dir0 |-> meta.dir, ok |-> r.ok, err |-> r.err,
                    fmt |-> r.fmt]
    /\ UNCHANGED <<disk, server, zenodo, impl, dirs, catalog, args, pc, lists, idx, tasks,
                   fut, results, outcome, ret, log, disk0, runs, dl, conf, wr, apptypes,
                   sql, plot>>

NextMeta == GetMetadataDatasetsCall

SpecMeta == InitMeta /\ [][NextMeta]_vars

(***************************************************************************)
(* HDF5SqlDB of stores/filedb/hdf5sqldb.py.  sql holds                     *)
(*   rows      the table hdf5_files in insertion order, records            *)
(*             [id, file_path]                                             *)
(*   seq       the largest id the AUTOINCREMENT key has handed out         *)
(*   uploaded  the resolved paths given to upload_file since the table     *)
(*             was created                                                 *)
(*   last      the last call and the resource it returned                  *)
(*   calls     the number of calls made                                    *)
(***************************************************************************)
FileNames == {"a.hdf", "b.hdf", "c.hdf"}

\* A filename argument: relative to the working directory, or absolute.
Filenames == [form : {"relative", "absolute"}, name : FileNames]

\* pathlib.Path(filename).resolve().absolute()
Resolve(filename) == [form |-> "absolute", name |-> filename.name]

\* The table accepts a file_path that no row holds (file_path ... UNIQUE).
UniqueOk(rows, path) == \A i \in 1..Len(rows) : rows[i].file_path # path

\* _insert_hdf5_reference: [rows, seq, id]; id is None after the
\* IntegrityError, which the method logs and swallows.
insert_hdf5_reference(rows, seq, filename) ==
    LET path == Resolve(filename)
    IN  IF UniqueOk(rows, path)
          THEN [rows |-> Append(rows, [id |-> seq + 1, file_path |-> path]),
                seq |-> seq + 1, id |-> Some(seq + 1)]
          ELSE [rows |-> rows, seq |-> seq, id |-> None]

\* str(_id)
StrId(id) == IF id = None THEN "None" ELSE id[1]

\* DatabaseResource(_id, metadata=self.generate_mapping_dataset(str(_id)))
DatabaseResource(id) == [id |-> id, identifier |-> StrId(id)]

InitSql ==
    /\ disk = NoFiles /\ disk0 = NoFiles /\ dirs = {}
    /\ server = [u \in Urls |-> None]
    /\ zenodo = {} /\ catalog = <<>>
    /\ impl = "core"
    /\ args = [entry |-> "sql", allowed |-> {}, n_threads |-> 1,
               exist_ok |-> TRUE, checksums_given |-> TRUE]
    /\ pc = "idle" /\ lists = <<>> /\ idx = 0 /\ tasks = <<>> /\ fut = <<>>
    /\ results = <<>> /\ outcome = Running /\ ret = <<>> /\ log = {} /\ runs = 0
    /\ dl = IdleDl /\ conf = IdleConf /\ wr = IdleWr /\ apptypes = <<>>
    /\ meta = IdleMeta /\ plot = IdlePlot
    /\ sql = [state |-> "open", rows |-> <<>>, seq |-> 0, uploaded |-> {},
              last |-> [op |-> "init"], calls |-> 0]

SqlOthersUnchanged ==
    UNCHANGED <<disk, server, zenodo, impl, dirs, catalog, args, pc, lists, idx, tasks,
                fut, results, outcome, ret, log, disk0, runs, dl, conf, wr, apptypes,
                meta, plot>>

\* db.upload_file(filename)
UploadFile ==
    /\ sql.state = "open" /\ sql.calls < MaxCalls
    /\ \E filename \in Filenames :
         LET r == insert_hdf5_reference(sql.rows, sql.seq, filename)
         IN  sql' = [sql EXCEPT !.rows = r.rows, !.seq = r.seq,
                                !.uploaded = @ \cup {Resolve(filename)},
                                !.last = [op |-> "upload", filename |-> filename,
                                          resource |-> DatabaseResource(r.id)],
                                !.calls = @ + 1]
    /\ SqlOthersUnchanged

\* db.reset(): DROP TABLE, then CREATE TABLE IF NOT EXISTS; the key sequence
\* of the dropped table goes with it.
ResetDatabase ==
    /\ sql.state = "open" /\ sql.calls < MaxCalls
    /\ sql' = [sql EXCEPT !.rows = <<>>, !.seq = 0, !.uploaded = {},
                           !.last = [op |-> "reset"], !.calls = @ + 1]
    /\ SqlOthersUnchanged

NextSql == UploadFile \/ ResetDatabase

SpecSql == InitSql /\ [][NextSql]_vars

(***************************************************************************)
(* SemanticFanCurve._get_plotting_data of models/fan_curve.py.  The two    *)
(* resolved selectors are one sequence of pairs <<xv, yv>>; each of xv, yv *)
(* is None or Some of a numerical variable [value, unc], unc being None    *)
(* when hasUncertaintyDeclaration is null and Some of the standard         *)
(* uncertainty otherwise.  The axis labels are computed from the resolved  *)
(* variables alone and are left out.                                       *)
(***************************************************************************)
MaxObs == 2

MaxVal == 1

\* np.nan: the entry of an error sequence that holds no number; a number u
\* is the entry Some(u).
NaN == <<>>

NumericalVariables == [value : 0..MaxVal, unc : {None, Some(1), Some(2)}]

Resolved == {None} \cup {Some(v) : v \in NumericalVariables}

\* xy_filtered: the pairs with both members present, in the given order.
xy_filtered(xy) == SelectSeq(xy, LAMBDA t : t[1] # None /\ t[2] # None)

\* [t[0].hasNumericalValue for t in xy_filtered] and the same for t[1],
\* kept as pairs.
Values(filtered) == [i \in 1..Len(filtered) |-> <<filtered[i][1][1].value, filtered[i][2][1].value>>]

\* t goes behind every pair whose key is not larger (sorted is stable).
InsertByX(sorted, t) ==
    LET k == Cardinality({i \in 1..Len(sorted) : sorted[i][1] <= t[1]})
    IN  SubSeq(sorted, 1, k) \o <<t>> \o SubSeq(sorted, k + 1, Len(sorted))

RECURSIVE SortedByX(_)
\* sorted(zip(xs, ys), key=lambda t: t[0])
SortedByX(pairs) ==
    IF pairs = <<>> THEN <<>>
    ELSE InsertByX(SortedByX(SubSeq(pairs, 1, Len(pairs) - 1)), pairs[Len(pairs)])

\* has_standard_uncertainty of the declaration, np.nan without one.
Uncertainty(v) == IF v.unc = None THEN NaN ELSE Some(v.unc[1])

\* The whole method: [kind, xs, ys, xerr, yerr]; xerr and yerr are built
\* from xy_filtered, after and apart from the sort of xs and ys.
get_plotting_data(xy, xsort, ret_err, raise_on_no_data_points) ==
    LET filtered == xy_filtered(xy)
        vals     == IF xsort THEN SortedByX(Values(filtered)) ELSE Values(filtered)
    IN  IF Len(filtered) = 0
          THEN IF raise_on_no_data_points
                 THEN [kind |-> "ValueError", xs |-> <<>>, ys |-> <<>>,
                       xerr |-> None, yerr |-> None]
                 ELSE [kind |-> "returned", xs |-> <<>>, ys |-> <<>>,
                       xerr |-> None, yerr |-> None]
          ELSE [kind |-> "returned",
                xs   |-> [i \in 1..Len(vals) |-> vals[i][1]],
                ys   |-> [i \in 1..Len(vals) |-> vals[i][2]],
                xerr |-> IF ret_err
                           THEN Some([i \in 1..Len(filtered) |-> Uncertainty(filtered[i][1][1])])
                           ELSE None,
                yerr |-> IF ret_err
                           THEN Some([i \in 1..Len(filtered) |-> Uncertainty(filtered[i][2][1])])
                           ELSE None]

InitPlot ==
    /\ disk = NoFiles /\ disk0 = NoFiles /\ dirs = {}
    /\ server = [u \in Urls |-> None]
    /\ zenodo = {} /\ catalog = <<>>
    /\ impl = "core"
    /\ args = [entry |-> "plot", allowed |-> {}, n_threads |-> 1,
               exist_ok |-> TRUE, checksums_given |-> TRUE]
    /\ pc = "idle" /\ lists = <<>> /\ idx = 0 /\ tasks = <<>> /\ fut = <<>>
    /\ results = <<>> /\ outcome = Running /\ ret = <<>> /\ log = {} /\ runs = 0
    /\ dl = IdleDl /\ conf = IdleConf /\ wr = IdleWr /\ apptypes = <<>>
    /\ meta = IdleMeta /\ sql = IdleSql
    /\ \E xy \in SeqsUpTo(Resolved \X Resolved, MaxObs),
          xsort \in BOOLEAN, ret_err \in BOOLEAN, raise_on_no_data_points \in BOOLEAN :
         plot = [state |-> "call", xy |-> xy, xsort |-> xsort, ret_err |-> ret_err,
                 raise_on_no_data_points |-> raise_on_no_data_points]

\* self._get_plotting_data(x, y, xsort=..., ret_err=..., raise_on_no_data_points=...)
GetPlottingDataCall ==
    /\ plot.state = "call"
    /\ LET r == get_plotting_data(plot.xy, plot.xsort, plot.ret_err,
                                  plot.raise_on_no_data_points)
       IN  plot' = [state |-> "done", xy |-> plot.xy, xsort |-> plot.xsort,
                    ret_err |-> plot.ret_err,
                    raise_on_no_data_points |-> plot.raise_on_no_data_points,
                    kind |-> r.kind, xs |-> r.xs, ys |-> r.ys,
                    xerr |-> r.xerr, yerr |-> r.yerr]
    /\ UNCHANGED <<disk, server, zenodo, impl, dirs, catalog, args, pc, lists, idx, tasks,
                   fut, results, outcome, ret, log, disk0, runs, dl, conf, wr, apptypes,
                   meta, sql>>

NextPlot == GetPlottingDataCall

SpecPlot == InitPlot /\ [][NextPlot]_vars

(***************************************************************************)
(* Properties.                                                             *)
(***************************************************************************)
CallEnded == outcome # Running
Returned == outcome.kind = "returned"
LoggedNow == {l \in log : l.run = runs}

\* C1: download_multiple_files, for max_workers = 1 as for max_workers > 1:
\* when a download of the batch fails, every target of the batch is still
\* attempted, the call returns the paths of the successful downloads, and it
\* does not raise.
C1_BatchToleratesFailure ==
    (args.entry = "batch" /\ args.checksums_given /\ CallEnded)
        => /\ Returned
           /\ \A i \in 1..Len(tasks) :
                \E l \in log : l.url = tasks[i].url /\ l.target = tasks[i].target
           /\ Range(ret) = {l.target : l \in {m \in log : m.ok}}

\* C2: a target whose download failed in an earlier run is attempted again by
\* a later run with exist_ok=False over the same catalog and directory.
C2_FailedIsRetried ==
    (args.entry = "pipeline" /\ ~args.exist_ok /\ Returned)
        => \A l \in log :
             (l.run < runs /\ ~l.ok)
                => \E m \in LoggedNow : m.target = l.target

\* C3: on an empty download directory, a URL that two or more rows resolve to
\* is handed to the download step as exactly one download task.
C3_OneTaskPerUrl ==
    (args.entry = "pipeline" /\ runs = 1)
        => \A u \in Urls :
             Cardinality({k \in 1..Len(lists) : lists[k].url = u}) >= 2
                => Cardinality({k \in 1..Len(lists) : lists[k].url = u /\ lists[k].flag}) = 1

\* C4: with exist_ok=False, a target whose path exists when the pipeline runs
\* causes no request, and its path is in the returned list.
C4_SkipIfExists ==
    (args.entry = "pipeline" /\ ~args.exist_ok)
        => \A k \in 1..Len(lists) :
             Exists(disk0, lists[k].target)
                => /\ \A l \in LoggedNow : l.target # lists[k].target
                   /\ (Returned => lists[k].target \in Range(ret))

C4_Witness ==
    /\ args.entry = "pipeline" /\ ~args.exist_ok /\ Returned
    /\ \E k \in 1..Len(lists) : Exists(disk0, lists[k].target)
    /\ \E l \in LoggedNow : l.requested

\* C5: every path of the returned list is a file that was on disk before the
\* run or was downloaded successfully in this run.
C5_ReturnedAreMaterialised ==
    (args.entry = "pipeline" /\ Returned)
        => \A p \in Range(ret) :
             \/ Exists(disk0, p)
             \/ \E l \in LoggedNow : l.target = p /\ l.ok

\* The canonical name of an algorithm string the call accepts.
CanonicalName(alg) == _parse_checksum_algorithm(alg[1]).name

\* The call has ended, its response was complete, and the digest of the
\* whole body under the declared algorithm is not the expected checksum.
BodyDigestDiffers ==
    /\ dl.state = "done"
    /\ dl.checksum # None /\ dl.checksum_algorithm # None
    /\ _parse_checksum_algorithm(dl.checksum_algorithm[1]).ok
    /\ CanonicalName(dl.checksum_algorithm) \in HashNames
    /\ ~dl.resp.net /\ dl.resp.status = 200 /\ dl.resp.cut = None
    /\ Digest(CanonicalName(dl.checksum_algorithm), Flatten(dl.resp.chunks))
          # dl.checksum[1]

\* C6: download_file with an expected checksum: when the digest of the
\* streamed body differs from it, the call raises a checksum mismatch and
\* does not return the target path, for every body and supported algorithm.
C6_ChecksumEnforced ==
    BodyDigestDiffers => (~dl.ok /\ dl.err = "ChecksumMismatch")

C6_Witness ==
    /\ BodyDigestDiffers /\ dl.err = "ChecksumMismatch"
    /\ Len(dl.resp.chunks) >= 2 /\ <<>> \in Range(dl.resp.chunks)
    /\ Len(Flatten(dl.resp.chunks)) >= 1

\* C7: the target path of a distribution depends on its download URL only:
\* the same URL has the same target path, in one run and across runs.
C7_PathFromUrlOnly ==
    args.entry = "pipeline"
        => /\ \A j, k \in 1..Len(lists) :
                lists[j].url = lists[k].url => lists[j].target = lists[k].target
           /\ \A l \in log : \A k \in 1..Len(lists) :
                l.url = lists[k].url => l.target = lists[k].target

\* C8: no distribution whose media type is known and not in
\* allowed_media_types is downloaded, be it listed in the catalog or obtained
\* through remote record resolution.
C8_OnlyAllowedMediaDownloaded ==
    args.entry = "pipeline"
        => \A l \in log :
             (l.requested /\ MediaTypeParse(impl, l.media) # "None")
                => MediaTypeParse(impl, l.media) \in args.allowed

\* C9: a row whose media type is absent or not recognised is not skipped by
\* the allow-list filter: a row with a download URL becomes a download
\* target, a row with a publisher is resolved.
C9_UnknownMediaProcessed ==
    (args.entry = "pipeline" /\ runs >= 1 /\ outcome.kind # "raised")
        => \A k \in 1..Len(catalog) :
             MediaTypeParse(impl, catalog[k].mediaType) = "None"
                => /\ catalog[k].downloadURL # None
                        => \E j \in 1..Len(lists) : lists[j].url = catalog[k].downloadURL[1]
                   /\ (catalog[k].downloadURL = None /\ catalog[k].publisherName # None)
                        => catalog[k].identifier \in zenodo

\* The failures of remote resolution: unsupported publisher, malformed
\* record reference, record not found or network error.
ResolutionErrors == {"UnsupportedPublisher", "InvalidRecordId", "RecordError"}

\* C10: a failing remote resolution of one dataset is not raised to the
\* caller of the pipeline: the dataset is skipped and the batch continues.
C10_ResolutionFailureNotRaised ==
    args.entry = "pipeline"
        => ~(outcome.kind = "raised" /\ outcome.err \in ResolutionErrors)

RECURSIVE SequentialDisk(_, _)
SequentialDisk(ts, d) ==
    IF ts = <<>> THEN d
    ELSE SequentialDisk(Tail(ts),
                        (Head(ts).target :> Flatten(server[Head(ts).url][1].chunks)) @@ d)

AllSucceeded ==
    /\ args.entry = "batch" /\ args.checksums_given /\ CallEnded
    /\ \A l \in log : l.ok
    /\ \A i \in 1..Len(tasks) :
          \E l \in log : l.url = tasks[i].url /\ l.target = tasks[i].target

SameAsSequential ==
    /\ Returned
    /\ Range(ret) = Range(Targets(tasks))
    /\ disk = SequentialDisk(tasks, disk0)

TargetsOfOneUrl ==
    \A i, j \in 1..Len(tasks) :
        tasks[i].target = tasks[j].target => tasks[i].url = tasks[j].url

\* C12 (as stated): for every batch all of whose downloads succeed,
\* download_multiple_files returns the same set of paths and leaves the same
\* files on disk with several workers, in every interleaving, as with
\* max_workers = 1.
C12_ParallelEqualsSequential == AllSucceeded => SameAsSequential

\* C12 (amended): the same, for every batch in which no target path is
\* given to two different URLs.
C12_ParallelEqualsSequentialDistinct ==
    (AllSucceeded /\ TargetsOfOneUrl) => SameAsSequential

C12_Witness ==
    /\ AllSucceeded /\ TargetsOfOneUrl /\ args.n_threads > 1
    /\ Len(tasks) > args.n_threads
    /\ \E i, j \in 1..Len(tasks) : tasks[i].target # tasks[j].target
    /\ \E p, q \in DOMAIN disk : disk[p] # disk[q]

\* The distributions of the catalog whose media type is one of the
\* requested application types.
RequestedRows ==
    {i \in 1..Len(catalog) :
       \E k \in 1..Len(args.application_types) :
          MatchesType(catalog[i], args.application_types[k])}

\* C13: download_metadata_datasets of opencefadb.database.dbinit (and
\* initialize_database, which calls it), when no download fails, returns one
\* path per catalog distribution of the requested media types, and every
\* returned path exists on disk when the call returns.
C13_DatabaseReturnsDownloadedPaths ==
    (args.entry = "database" /\ CallEnded /\ \A l \in log : l.ok)
        => /\ Returned
           /\ Len(ret) = Cardinality(RequestedRows)
           /\ \A i \in 1..Len(ret) : Exists(disk, ret[i])

\* C14: two consecutive calls connect_to_database(p) with the same profile
\* p that both return, return the very same OpenCeFaDB instance.
C14_ConnectIsSingleton ==
    (/\ conf.prev.op = "connect" /\ conf.last.op = "connect"
     /\ conf.prev.profile = conf.last.profile
     /\ conf.prev.ok /\ conf.last.ok)
        => conf.last.result = conf.prev.result

C14_Witness ==
    /\ conf.prev.op = "connect" /\ conf.last.op = "connect"
    /\ conf.prev.profile = conf.last.profile
    /\ conf.prev.ok /\ conf.last.ok
    /\ conf.last.result = conf.db /\ conf.db # 0
    /\ conf.objs[conf.cur].profile = conf.last.profile

\* The handles the client got since the last delete().
LiveHandles == {conf.handles[h] : h \in (conf.stale + 1)..Len(conf.handles)}

\* C15: get_config() returns the same configuration object on every call
\* until delete() is called, and, while delete() has not been called, after
\* any sequence of select_profile calls through any handle every handle
\* reports the profile of the last successful select_profile.
C15_ConfigIsSingleton ==
    /\ \A o \in LiveHandles : o = conf.cur
    /\ (conf.stale = 0 /\ conf.selected # None)
          => \A h \in 1..Len(conf.handles) :
                conf.objs[conf.handles[h]].profile = conf.selected[1]

C15_Witness ==
    /\ conf.stale = 0 /\ Len(conf.handles) >= 2
    /\ conf.prev.op = "select_profile" /\ conf.prev.ok
    /\ conf.last.op = "select_profile" /\ conf.last.ok
    /\ conf.prev.profile # conf.last.profile
    /\ \A h \in 1..Len(conf.handles) :
          conf.objs[conf.handles[h]].profile = conf.last.profile

\* C16: with max_workers > 1, for every completion order of the workers, the
\* list download_multiple_files returns mirrors the submission order: the
\* outcome at index i is the outcome of the i-th submitted target.
C16_ResultsMirrorSubmission ==
    (args.entry = "batch" /\ args.n_threads > 1 /\ Returned)
        => /\ Len(ret) = Len(tasks)
           /\ \A i \in 1..Len(tasks) : ret[i] = tasks[i].target

\* C17: with max_workers = n > 1, at no time are more than n downloads in
\* progress.
C17_AtMostNInProgress ==
    (args.entry = "batch" /\ args.n_threads > 1)
        => Cardinality({i \in 1..Len(fut) : fut[i] = "running"}) <= args.n_threads

C17_Witness ==
    /\ args.entry = "batch" /\ args.n_threads > 1
    /\ Cardinality({i \in 1..Len(fut) : fut[i] = "running"}) = args.n_threads
    /\ \E i \in 1..Len(fut) : fut[i] = "pending"

\* C18: when two concurrent pipeline runs over the same download directory,
\* both with exist_ok=True, download the same URL, the target file afterwards
\* holds the complete body written by one of the two runs, never a mixture of
\* chunks from both.
C18_LastWriterWins ==
    (args.entry = "race" /\ \A w \in Writers : wr[w].at = "closed")
        => /\ Exists(disk, RaceTarget)
           /\ \E w \in Writers : disk[RaceTarget] = Flatten(wr[w].chunks)

\* C19: every download task carries a checksum value and a checksum
\* algorithm that are both set or both unset: a distribution for which only
\* one of the two is available is treated as having no checksum, and is
\* downloaded unverified rather than failing.
C19_ChecksumPairsComplete ==
    /\ \A i \in 1..Len(lists) :
          (lists[i].checksum = None) <=> (lists[i].checksum_algorithm = None)
    /\ \A l \in log : l.err # "ValueError"

\* C20: _parse_checksum_algorithm either returns one of sha256, md5, sha1 or
\* fails with the unsupported-algorithm error: no other value is handed to
\* the digest primitive, and the failure happens before any network request.
C20_AlgorithmCanonicalOrRejected ==
    (dl.state = "done" /\ dl.checksum # None /\ dl.checksum_algorithm # None)
        => /\ _parse_checksum_algorithm(dl.checksum_algorithm[1]).ok
                => _parse_checksum_algorithm(dl.checksum_algorithm[1]).name \in HashNames
           /\ dl.err = "UnsupportedAlgorithm" => ~dl.requested

\* The loop state the collection loop of the current run started from.
LoopStart == LoopState(<<>>, None, {}, {}, "")

\* A dataset row without distribution whose publisher is Zenodo and whose
\* record exists.
ResolvableRow == Row(None, None, None, None, Some(Zenodo), RefFound)

\* C21: for a catalog dataset that has no direct distribution but has a
\* publisher name, the pipeline calls the remote record resolver with that
\* dataset's publisher and record reference, and every distribution the
\* resolver returns becomes a download target of the run.
C21_RemoteRowIsResolved ==
    (/\ args.entry = "pipeline" /\ runs >= 1
     /\ Len(catalog) >= 1 /\ catalog[1] = ResolvableRow)
        => /\ RefFound \in zenodo
           /\ LET dists == zenodo_record_distributions(impl, RefFound).dists
              IN  \A i \in 1..Len(dists) :
                     \E j \in 1..Len(lists) : lists[j].url = dists[i].download_url

\* A dataset row without distribution whose publisher is not Zenodo.
ForeignRow == Row(None, None, None, None, Some(Figshare), RefFound)

\* C24: remote record resolution is performed only when the dataset's
\* publisher name equals 'zenodo' ignoring case; for every other publisher
\* name the resolver fails with an unsupported-publisher error and queries no
\* remote record.
C24_OnlyZenodoIsResolved ==
    args.entry = "pipeline"
        => /\ \A ref \in zenodo :
                 \E i \in 1..Len(catalog) :
                    /\ catalog[i].publisherName = Some(Zenodo)
                    /\ catalog[i].identifier = ref
           /\ (/\ runs >= 1 /\ "None" \in args.allowed
               /\ Len(catalog) >= 1 /\ catalog[1] = ForeignRow)
                 => outcome = Ended("raised", "UnsupportedPublisher")

\* The catalog without the rows that have neither a download URL nor a
\* publisher name.
WithoutBareRows == SelectSeq(catalog, LAMBDA r : r.downloadURL # None \/ r.publisherName # None)

\* C27: a catalog row that has neither a download URL nor a publisher name
\* contributes no download target and no entry to the returned list and does
\* not make the pipeline fail: the run collects what it would collect from
\* the catalog without such rows.
C27_BareRowIsIgnored ==
    (args.entry = "pipeline" /\ runs >= 1)
        => LET with == Collect(impl, catalog, LoopStart, args.allowed, disk0,
                               args.exist_ok)
               without == Collect(impl, WithoutBareRows, LoopStart, args.allowed, disk0,
                                  args.exist_ok)
           IN  /\ lists = without.entries
               /\ with.err = without.err

\* C26: after any sequence of select_profile and connect_to_database calls,
\* the instance connect_to_database(p) returns was built from the store
\* settings of profile p, never for a different profile.
C26_InstanceMatchesProfile ==
    (conf.last.op = "connect" /\ conf.last.ok)
        => conf.insts[conf.last.result].profile = conf.last.profile

C28_ReturnsAfterAllFinished ==
    /\ []((args.entry = "batch" /\ Returned)
            => \A i \in 1..Len(fut) : fut[i] \in {"ok", "err"})
    /\ <>CallEnded

C28_Witness ==
    /\ args.entry = "batch" /\ Returned /\ args.n_threads > 1
    /\ Len(fut) > args.n_threads
    /\ \E i, j \in 1..Len(fut) : fut[i] = "ok" /\ fut[j] = "err"

\* The call found its file and its directory.
MetaReached == meta.state = "done" /\ meta.file # None /\ meta.dir0 # None

\* C22 (as stated): _get_metadata_datasets selects the parse format from the
\* file suffix only: .ttl is parsed as Turtle, .json and .jsonld as JSON-LD,
\* and every other suffix fails with an unsupported-format error.
C22_FormatFromSuffix ==
    MetaReached
        => /\ meta.suffix = ".ttl" => meta.fmt = "ttl"
           /\ meta.suffix \in {".json", ".jsonld"} => meta.fmt = "json-ld"
           /\ meta.suffix \notin {".ttl", ".json", ".jsonld"}
                 => ~meta.ok /\ meta.err = "UnsupportedSuffix"

\* C22 (amended): .ttl is parsed as Turtle, .json, .jsonld and .json-ld as
\* JSON-LD, whatever the content of the file, and every other suffix fails
\* with the unsupported-suffix error.
C22_FormatFromSuffixWithJsonDashLd ==
    MetaReached
        => /\ meta.suffix = ".ttl" => meta.fmt = "ttl"
           /\ meta.suffix \in {".json", ".jsonld", ".json-ld"} => meta.fmt = "json-ld"
           /\ meta.suffix \notin {".ttl", ".json", ".jsonld", ".json-ld"}
                 => ~meta.ok /\ meta.err = "UnsupportedSuffix"

C22_Witness ==
    /\ MetaReached /\ meta.suffix = ".json-ld"
    /\ meta.fmt = "json-ld" /\ meta.ok

\* C29: when _get_metadata_datasets fails for a missing configuration file,
\* a missing configuration directory or an unsupported file suffix, it
\* leaves the configuration directory unchanged: no copy of the
\* configuration file has been written there.
C29_FailureLeavesConfigDir ==
    (meta.state = "done" /\ meta.err \in {"FileNotFoundError", "UnsupportedSuffix"})
        => meta.dir = meta.dir0

\* C25: upload_file always returns a resource that carries the integer id of
\* the table row holding the resolved path of the uploaded file, also when
\* that path was uploaded before; and the table holds exactly one row for
\* every distinct path uploaded.
C25_UploadReturnsRowId ==
    sql.state = "open"
        => /\ sql.last.op = "upload"
                => /\ sql.last.resource.id # None
                   /\ \E i \in 1..Len(sql.rows) :
                        /\ sql.rows[i].id = sql.last.resource.id[1]
                        /\ sql.rows[i].file_path = Resolve(sql.last.filename)
           /\ \A path \in sql.uploaded :
                Cardinality({i \in 1..Len(sql.rows) : sql.rows[i].file_path = path}) = 1
           /\ \A i \in 1..Len(sql.rows) : sql.rows[i].file_path \in sql.uploaded

\* C30: with xsort=True and ret_err=True the four sequences returned by
\* _get_plotting_data stay aligned: for every index i, xerr[i] and yerr[i]
\* are the uncertainties of one observation whose values are xs[i] and
\* ys[i]; and xs is in ascending order.
C30_ErrorsFollowTheSort ==
    (plot.state = "done" /\ plot.kind = "returned" /\ plot.xsort /\ plot.ret_err
        /\ plot.xerr # None)
        => LET filtered == xy_filtered(plot.xy)
           IN  /\ Len(plot.xs) = Len(filtered) /\ Len(plot.ys) = Len(filtered)
               /\ Len(plot.xerr[1]) = Len(filtered) /\ Len(plot.yerr[1]) = Len(filtered)
               /\ \A i \in 1..Len(filtered) :
                    \E k \in 1..Len(filtered) :
                       /\ filtered[k][1][1].value = plot.xs[i]
                       /\ filtered[k][2][1].value = plot.ys[i]
                       /\ Uncertainty(filtered[k][1][1]) = plot.xerr[1][i]
                       /\ Uncertainty(filtered[k][2][1]) = plot.yerr[1][i]
               /\ \A i \in 1..(Len(plot.xs) - 1) : plot.xs[i] <= plot.xs[i + 1]

=============================================================================
